---- MODULE Spec2Model ----
(***************************************************************************)
(* Model of the Cerina protocol-foundry workflow: the FoundryState shared  *)
(* by the nodes (state.py), the graph wired in build_graph (graph.py), the *)
(* supervisor and its router, the agents' state updates, and the two API   *)
(* entry points that drive a session: create_session (a fresh run) and     *)
(* human_approve (a patch applied as the await_human node, then a resume). *)
(*                                                                         *)
(* Scores are floats in [0, 1] in the code; the model keeps them in        *)
(* hundredths (0.7 is 70).  None is NoScore for a score, NoDraft for a     *)
(* draft and NoError for the error message.                                *)
(***************************************************************************)
EXTENDS Integers, Sequences, FiniteSets, TLC

VARIABLES
    values,         \* the channel values of the session's latest checkpoint (a FoundryState)
    hasCheckpoint,  \* TRUE once the thread has a checkpoint
    next,           \* the nodes the executor runs next (the snapshot's next; {} at END)
    writes,         \* updates of the siblings that completed in the current superstep, in completion order
    phase,          \* "idle" before any call, "running" inside ainvoke, "returned" after it
    call,           \* the API call the current or last run belongs to, and its action
    atCall,         \* the checkpoint values read when that call began
    lastNode,       \* the node or operation that took the last step
    supIn,          \* the state the supervisor last ran on
    label,          \* the label route_supervisor last returned
    runCount,       \* executions of each node inside the current run invocation
    uuid,           \* number of fresh identifiers handed out so far
    resumes,        \* number of human_approve calls made
    applied,        \* the reviews before, and the writes merged by, the fan-in the last step closed
    sessCount,      \* executions of each node over the whole session
    env,            \* the collaborators: whether text generation and the audit log work
    http,           \* the response of the last API call that ended without running the graph
    req,            \* the concurrent human_approve requests: where each is and the snapshot it read
    probe           \* a second state, for comparing the supervisor on two states

vars == <<values, hasCheckpoint, next, writes, phase, call, atCall, lastNode,
          supIn, label, runCount, uuid, resumes, applied, sessCount,
          env, http, req, probe>>

----------------------------------------------------------------------------
(* Bounds of the model *)

\* human_approve calls explored per session
MaxResumes == 2

\* revisions explored per session where two requests are in flight
MaxConcurrentRevisions == 1

\* human_approve calls explored per session where reads and failures are explored
MaxApiResumes == 1

\* consecutive get_session_state calls explored
MaxGets == 2

----------------------------------------------------------------------------
(* Constants of the program *)

SAFETY_THRESHOLD == 70
EMPATHY_THRESHOLD == 60
CLINICAL_THRESHOLD == 60
SAFETY_FLOOR == 20
DEFAULT_MAX_ITERATIONS == 4

NoScore == -1
NoDraft == [id |-> 0, content |-> "none", created_by |-> "none",
            version_number |-> 0, parent_draft_id |-> 0]
NoError == "none"
CriticalSafetyError == "Critical safety violation detected."
MaxIterationsError == "Max iterations reached without meeting quality thresholds."

Statuses == {"INIT", "DRAFTING", "REVIEWING", "REVISING", "AWAITING_HUMAN",
             "APPROVED", "FAILED", "REJECTED"}

Critics == {"safety", "empathy", "clinical"}
Nodes == {"intent_interpreter", "drafting", "revision", "supervisor", "await_human"} \cup Critics

HumanActions == {"APPROVE_FINAL", "APPROVE_CONTINUE", "REQUEST_REVISION", "REJECT"}

\* Scores a critic can come back with (clamped to [0, 1] by the critic), chosen
\* on both sides of the floor and of each threshold.
SafetyScores == {10, 20, 69, 70}
EmpathyScores == {59, 60}
ClinicalScores == {59, 60}

\* Contents the reviewer can send as new_content.
HumanContents == {"generated", "edited"}

----------------------------------------------------------------------------
(* State model: state.py *)

\* Variant: the reducer keeps only the incoming list (a plain replace-on-write field).
merge_reviews_Replace(current, new) == new

merge_reviews(current, new) == current \o new

new_session_state ==
    [session_id |-> "s1",
     user_intent |-> "raw",
     current_draft |-> NoDraft,
     draft_history |-> <<>>,
     reviews |-> <<>>,
     safety_score |-> NoScore,
     empathy_score |-> NoScore,
     clinical_score |-> NoScore,
     iteration |-> 0,
     max_iterations |-> DEFAULT_MAX_ITERATIONS,
     status |-> "INIT",
     approve_after_revision |-> FALSE,
     error |-> NoError,
     scratchpads |-> {}]

\* The empty update {} a node returns when it changes nothing.
EmptyUpdate == [f \in {} |-> f]

\* One update applied to the channels: reviews goes through its reducer, every
\* other field present in the update replaces the stored value.
ApplyUpdate(state, upd) ==
    [f \in DOMAIN state |->
        IF f \in DOMAIN upd
        THEN IF f = "reviews" THEN merge_reviews(state[f], upd[f]) ELSE upd[f]
        ELSE state[f]]

----------------------------------------------------------------------------
(* Agents (the agents package).  Each is a function from the state to a    *)
(* partial update.  A Review keeps the fields the workflow reads or       *)
(* compares: its id, its producer and the draft it evaluates.              *)

Review(id, agent, state) ==
    [id |-> id, agent_name |-> agent,
     target_draft_id |-> IF state.current_draft # NoDraft
                         THEN state.current_draft.id ELSE 0]

\* What the audit log does with a record: "ok", or the step of the write
\* that raises.
DbOutcomes == {"ok", "open_failed", "add_failed", "commit_failed"}

\* Variant: a failed audit write takes the node's result with it.
log_agent_run_Raising(result) ==
    [result |-> IF env.db = "ok" THEN result ELSE EmptyUpdate, logged |-> env.db = "ok"]

\* The decorator of the six agents: the agent's result is returned as it is;
\* the audit record is written when the log works and dropped when it raises.
log_agent_run(result) == [result |-> result, logged |-> env.db = "ok"]

\* The text a generation call yields: the model's, or the node's fallback
\* when the call raises.
GeneratedContent == IF env.llm = "down" THEN "fallback" ELSE "generated"

run_intent_interpreter(state) ==
    [user_intent |-> IF env.llm = "down" THEN state.user_intent ELSE "normalized",
     scratchpads |-> state.scratchpads \cup {"IntentInterpreter"},
     status |-> "DRAFTING"]

run_drafting_agent(state, id, content) ==
    LET new_draft == [id |-> id, content |-> content, created_by |-> "DraftingAgent",
                      version_number |-> state.iteration + 1,
                      parent_draft_id |-> IF state.current_draft # NoDraft
                                          THEN state.current_draft.id ELSE 0]
        new_history == state.draft_history \o
                       (IF state.current_draft # NoDraft
                        THEN <<state.current_draft>> ELSE <<>>)
    IN [current_draft |-> new_draft,
        draft_history |-> new_history,
        iteration |-> state.iteration + 1,
        status |-> "REVIEWING"]

\* Variant: the replaced draft is not kept in the history.
run_revision_agent_NoHistory(state, id, content) ==
    IF state.current_draft = NoDraft
    THEN EmptyUpdate
    ELSE [current_draft |-> [id |-> id, content |-> content, created_by |-> "RevisionAgent",
                             version_number |-> state.current_draft.version_number + 1,
                             parent_draft_id |-> state.current_draft.id],
          draft_history |-> state.draft_history,
          iteration |-> state.iteration + 1,
          status |-> "REVIEWING"]

\* Variant: the iteration counter is left as it was.
run_revision_agent_NoIncrement(state, id, content) ==
    IF state.current_draft = NoDraft
    THEN EmptyUpdate
    ELSE [current_draft |-> [id |-> id, content |-> content, created_by |-> "RevisionAgent",
                             version_number |-> state.current_draft.version_number + 1,
                             parent_draft_id |-> state.current_draft.id],
          draft_history |-> state.draft_history \o <<state.current_draft>>,
          status |-> "REVIEWING"]

run_revision_agent(state, id, content) ==
    IF state.current_draft = NoDraft
    THEN EmptyUpdate
    ELSE LET current_draft == state.current_draft
             new_draft == [id |-> id, content |-> content, created_by |-> "RevisionAgent",
                           version_number |-> current_draft.version_number + 1,
                           parent_draft_id |-> current_draft.id]
             new_history == state.draft_history \o <<current_draft>>
         IN [current_draft |-> new_draft,
             draft_history |-> new_history,
             iteration |-> state.iteration + 1,
             status |-> "REVIEWING"]

run_safety_guardian(state, id, score) ==
    IF state.current_draft = NoDraft
    THEN EmptyUpdate
    ELSE [reviews |-> <<Review(id, "SafetyGuardian", state)>>, safety_score |-> score]

\* Variant: the empathy critic reports under the safety score.
run_empathy_tone_agent_WritesSafety(state, id, score) ==
    IF state.current_draft = NoDraft
    THEN EmptyUpdate
    ELSE [reviews |-> <<Review(id, "EmpathyToneAgent", state)>>, safety_score |-> score]

run_empathy_tone_agent(state, id, score) ==
    IF state.current_draft = NoDraft
    THEN EmptyUpdate
    ELSE [reviews |-> <<Review(id, "EmpathyToneAgent", state)>>, empathy_score |-> score]

run_clinical_critic(state, id, score) ==
    IF state.current_draft = NoDraft
    THEN EmptyUpdate
    ELSE [reviews |-> <<Review(id, "ClinicalCritic", state)>>, clinical_score |-> score]

----------------------------------------------------------------------------
(* Supervisor and router: graph.py *)

scores_present(state) ==
    /\ state.safety_score # NoScore
    /\ state.empathy_score # NoScore
    /\ state.clinical_score # NoScore

\* Variant: the thresholds compared with > instead of >=.
scores_passing_Strict(state) ==
    /\ scores_present(state)
    /\ state.safety_score > SAFETY_THRESHOLD
    /\ state.empathy_score > EMPATHY_THRESHOLD
    /\ state.clinical_score > CLINICAL_THRESHOLD

scores_passing(state) ==
    /\ scores_present(state)
    /\ state.safety_score >= SAFETY_THRESHOLD
    /\ state.empathy_score >= EMPATHY_THRESHOLD
    /\ state.clinical_score >= CLINICAL_THRESHOLD

\* Variant: the auto-approve branch taken without looking at approve_after_revision.
run_supervisor_IgnoreFlag(state) ==
    IF state.safety_score # NoScore /\ state.safety_score < SAFETY_FLOOR
    THEN [status |-> "FAILED", error |-> CriticalSafetyError,
          approve_after_revision |-> FALSE]
    ELSE IF state.status = "REVIEWING"
    THEN IF scores_passing(state)
         THEN [status |-> "APPROVED", approve_after_revision |-> FALSE]
         ELSE IF state.iteration >= state.max_iterations
         THEN [status |-> "FAILED", error |-> MaxIterationsError,
               approve_after_revision |-> FALSE]
         ELSE EmptyUpdate
    ELSE IF scores_passing(state) /\ state.iteration >= 1
    THEN EmptyUpdate
    ELSE IF state.iteration >= state.max_iterations /\ ~scores_passing(state)
    THEN [status |-> "FAILED", error |-> MaxIterationsError]
    ELSE EmptyUpdate

\* Variant: the critical safety check left out.
run_supervisor_NoFloor(state) ==
    IF state.approve_after_revision /\ state.status = "REVIEWING"
    THEN IF scores_passing(state)
         THEN [status |-> "APPROVED", approve_after_revision |-> FALSE]
         ELSE IF state.iteration >= state.max_iterations
         THEN [status |-> "FAILED", error |-> MaxIterationsError,
               approve_after_revision |-> FALSE]
         ELSE EmptyUpdate
    ELSE IF scores_passing(state) /\ state.iteration >= 1
    THEN EmptyUpdate
    ELSE IF state.iteration >= state.max_iterations /\ ~scores_passing(state)
    THEN [status |-> "FAILED", error |-> MaxIterationsError]
    ELSE EmptyUpdate

\* Variant: the critical safety check made only during the review phase.
run_supervisor_FloorWhenReviewing(state) ==
    IF state.status = "REVIEWING" /\ state.safety_score # NoScore
       /\ state.safety_score < SAFETY_FLOOR
    THEN [status |-> "FAILED", error |-> CriticalSafetyError,
          approve_after_revision |-> FALSE]
    ELSE IF state.approve_after_revision /\ state.status = "REVIEWING"
    THEN IF scores_passing(state)
         THEN [status |-> "APPROVED", approve_after_revision |-> FALSE]
         ELSE IF state.iteration >= state.max_iterations
         THEN [status |-> "FAILED", error |-> MaxIterationsError,
               approve_after_revision |-> FALSE]
         ELSE EmptyUpdate
    ELSE IF scores_passing(state) /\ state.iteration >= 1
    THEN EmptyUpdate
    ELSE IF state.iteration >= state.max_iterations /\ ~scores_passing(state)
    THEN [status |-> "FAILED", error |-> MaxIterationsError]
    ELSE EmptyUpdate

\* Variant: the iteration bound compared with > instead of >=.
run_supervisor_LateExhaustion(state) ==
    IF state.safety_score # NoScore /\ state.safety_score < SAFETY_FLOOR
    THEN [status |-> "FAILED", error |-> CriticalSafetyError,
          approve_after_revision |-> FALSE]
    ELSE IF state.approve_after_revision /\ state.status = "REVIEWING"
    THEN IF scores_passing(state)
         THEN [status |-> "APPROVED", approve_after_revision |-> FALSE]
         ELSE IF state.iteration > state.max_iterations
         THEN [status |-> "FAILED", error |-> MaxIterationsError,
               approve_after_revision |-> FALSE]
         ELSE EmptyUpdate
    ELSE IF scores_passing(state) /\ state.iteration >= 1
    THEN EmptyUpdate
    ELSE IF state.iteration > state.max_iterations /\ ~scores_passing(state)
    THEN [status |-> "FAILED", error |-> MaxIterationsError]
    ELSE EmptyUpdate

\* Variant: the auto-approve branch left out of the supervisor node, the
\* router alone deciding.
run_supervisor_NoAutoApprove(state) ==
    IF state.safety_score # NoScore /\ state.safety_score < SAFETY_FLOOR
    THEN [status |-> "FAILED", error |-> CriticalSafetyError,
          approve_after_revision |-> FALSE]
    ELSE IF scores_passing(state) /\ state.iteration >= 1
    THEN EmptyUpdate
    ELSE IF state.iteration >= state.max_iterations /\ ~scores_passing(state)
    THEN [status |-> "FAILED", error |-> MaxIterationsError]
    ELSE EmptyUpdate

\* Variant: the auto-approve branch also wants a review on record.
run_supervisor_ReadsReviews(state) ==
    IF state.safety_score # NoScore /\ state.safety_score < SAFETY_FLOOR
    THEN [status |-> "FAILED", error |-> CriticalSafetyError,
          approve_after_revision |-> FALSE]
    ELSE IF state.approve_after_revision /\ state.status = "REVIEWING"
    THEN IF scores_passing(state) /\ state.reviews # <<>>
         THEN [status |-> "APPROVED", approve_after_revision |-> FALSE]
         ELSE IF state.iteration >= state.max_iterations
         THEN [status |-> "FAILED", error |-> MaxIterationsError,
               approve_after_revision |-> FALSE]
         ELSE EmptyUpdate
    ELSE IF scores_passing(state) /\ state.iteration >= 1
    THEN EmptyUpdate
    ELSE IF state.iteration >= state.max_iterations /\ ~scores_passing(state)
    THEN [status |-> "FAILED", error |-> MaxIterationsError]
    ELSE EmptyUpdate

run_supervisor(state) ==
    IF state.safety_score # NoScore /\ state.safety_score < SAFETY_FLOOR
    THEN [status |-> "FAILED", error |-> CriticalSafetyError,
          approve_after_revision |-> FALSE]
    ELSE IF state.approve_after_revision /\ state.status = "REVIEWING"
    THEN IF scores_passing(state)
         THEN [status |-> "APPROVED", approve_after_revision |-> FALSE]
         ELSE IF state.iteration >= state.max_iterations
         THEN [status |-> "FAILED", error |-> MaxIterationsError,
               approve_after_revision |-> FALSE]
         ELSE EmptyUpdate
    ELSE IF scores_passing(state) /\ state.iteration >= 1
    THEN EmptyUpdate
    ELSE IF state.iteration >= state.max_iterations /\ ~scores_passing(state)
    THEN [status |-> "FAILED", error |-> MaxIterationsError]
    ELSE EmptyUpdate

await_human(state) == [status |-> "AWAITING_HUMAN"]

\* Variant: the APPROVED status not recognised by the router.
route_supervisor_NoApproved(state) ==
    IF state.status = "FAILED" THEN "FAILED"
    ELSE IF state.status = "REVISING" THEN "revision"
    ELSE IF state.status = "REJECTED" THEN "rejected"
    ELSE IF state.approve_after_revision /\ state.status = "REVIEWING"
    THEN IF scores_passing(state) THEN "approved"
         ELSE IF state.iteration < state.max_iterations THEN "revision"
         ELSE "FAILED"
    ELSE IF scores_passing(state) /\ state.iteration >= 1 THEN "await_human"
    ELSE IF state.iteration < state.max_iterations THEN "revision"
    ELSE "FAILED"

\* Variant: the REJECTED status not recognised by the router.
route_supervisor_NoRejected(state) ==
    IF state.status = "FAILED" THEN "FAILED"
    ELSE IF state.status = "APPROVED" THEN "approved"
    ELSE IF state.status = "REVISING" THEN "revision"
    ELSE IF state.approve_after_revision /\ state.status = "REVIEWING"
    THEN IF scores_passing(state) THEN "approved"
         ELSE IF state.iteration < state.max_iterations THEN "revision"
         ELSE "FAILED"
    ELSE IF scores_passing(state) /\ state.iteration >= 1 THEN "await_human"
    ELSE IF state.iteration < state.max_iterations THEN "revision"
    ELSE "FAILED"

\* Variant: the router does not look for status FAILED.
route_supervisor_NoFailed(state) ==
    IF state.status = "APPROVED" THEN "approved"
    ELSE IF state.status = "REVISING" THEN "revision"
    ELSE IF state.status = "REJECTED" THEN "rejected"
    ELSE IF state.approve_after_revision /\ state.status = "REVIEWING"
    THEN IF scores_passing(state) THEN "approved"
         ELSE IF state.iteration < state.max_iterations THEN "revision"
         ELSE "FAILED"
    ELSE IF scores_passing(state) /\ state.iteration >= 1 THEN "await_human"
    ELSE IF state.iteration < state.max_iterations THEN "revision"
    ELSE "FAILED"

\* Variant: a state without scores is sent back to drafting, a label the
\* conditional-edge map does not have.
route_supervisor_Redraft(state) ==
    IF state.status = "FAILED" THEN "FAILED"
    ELSE IF state.status = "APPROVED" THEN "approved"
    ELSE IF state.status = "REVISING" THEN "revision"
    ELSE IF state.status = "REJECTED" THEN "rejected"
    ELSE IF ~scores_present(state) THEN "drafting"
    ELSE IF state.approve_after_revision /\ state.status = "REVIEWING"
    THEN IF scores_passing(state) THEN "approved"
         ELSE IF state.iteration < state.max_iterations THEN "revision"
         ELSE "FAILED"
    ELSE IF scores_passing(state) /\ state.iteration >= 1 THEN "await_human"
    ELSE IF state.iteration < state.max_iterations THEN "revision"
    ELSE "FAILED"

route_supervisor(state) ==
    IF state.status = "FAILED" THEN "FAILED"
    ELSE IF state.status = "APPROVED" THEN "approved"
    ELSE IF state.status = "REVISING" THEN "revision"
    ELSE IF state.status = "REJECTED" THEN "rejected"
    ELSE IF state.approve_after_revision /\ state.status = "REVIEWING"
    THEN IF scores_passing(state) THEN "approved"
         ELSE IF state.iteration < state.max_iterations THEN "revision"
         ELSE "FAILED"
    ELSE IF scores_passing(state) /\ state.iteration >= 1 THEN "await_human"
    ELSE IF state.iteration < state.max_iterations THEN "revision"
    ELSE "FAILED"

\* Variant: the router is handed the state the supervisor was started on.
RoutedState_Stale(state, upd) == state

\* The state the conditional edge hands to route_supervisor: the channels
\* with the supervisor's own writes applied.
RoutedState(state, upd) == ApplyUpdate(state, upd)

\* The conditional-edge map of the supervisor: label -> successor nodes ({} is END).
SupervisorEdges(l) ==
    IF l = "await_human" THEN {"await_human"}
    ELSE IF l = "revision" THEN {"revision"}
    ELSE {}

----------------------------------------------------------------------------
(* Executor: the compiled graph of build_graph, run by ainvoke.            *)

\* Variant: the edge leaving await_human leads back to the entry point.
Edges_RestartAtEntry(node) ==
    IF node = "intent_interpreter" THEN {"drafting"}
    ELSE IF node \in {"drafting", "revision"} THEN Critics
    ELSE IF node \in Critics THEN {"supervisor"}
    ELSE IF node = "await_human" THEN {"intent_interpreter"}
    ELSE {}

\* Successors along the unconditional edges.
Edges(node) ==
    IF node = "intent_interpreter" THEN {"drafting"}
    ELSE IF node \in {"drafting", "revision"} THEN Critics
    ELSE IF node \in Critics THEN {"supervisor"}
    ELSE IF node = "await_human" THEN {"supervisor"}
    ELSE {}

\* Nodes after which the run is interrupted.
interrupt_after == {"await_human"}

\* Each task of a superstep draws its own fresh identifier.
CriticIndex(c) == IF c = "safety" THEN 1 ELSE IF c = "empathy" THEN 2 ELSE 3

\* Variant: a safety fallback below the floor.
FallbackScore_Failing(c) == IF c = "safety" THEN 10 ELSE 85

\* The score a critic falls back on when its generation call raises.
FallbackScore(c) == IF c = "safety" THEN 80 ELSE IF c = "empathy" THEN 85 ELSE 90

CriticScores(c) ==
    IF env.llm = "down" THEN {FallbackScore(c)}
    ELSE IF c = "safety" THEN SafetyScores
    ELSE IF c = "empathy" THEN EmpathyScores
    ELSE ClinicalScores

CriticUpdate(c, state, id, score) ==
    IF c = "safety" THEN run_safety_guardian(state, id, score)
    ELSE IF c = "empathy" THEN run_empathy_tone_agent(state, id, score)
    ELSE run_clinical_critic(state, id, score)

\* Variant: the writes applied in the order the tasks completed.
WriteOrder_Completion(w) == w

\* The writes of a superstep are applied once every task has completed, in
\* the order of the task names, whatever the order of completion.
WriteOrder(w) ==
    SelectSeq(w, LAMBDA x : x.node = "clinical") \o
    SelectSeq(w, LAMBDA x : x.node = "empathy") \o
    SelectSeq(w, LAMBDA x : x.node = "safety")

RECURSIVE ApplyAll(_, _)
ApplyAll(state, w) ==
    IF w = <<>> THEN state
    ELSE ApplyAll(ApplyUpdate(state, Head(w).update), Tail(w))

ApplyWrites(state, w) == ApplyAll(state, WriteOrder(w))

\* Variant: the superstep counted complete at the first sibling's completion.
Completed_Any(w) == IF w = <<>> THEN {} ELSE Critics

Completed(w) == {w[i].node : i \in DOMAIN w}

ZeroCount == [n \in Nodes |-> 0]

Count(n) == [runCount EXCEPT ![n] = @ + 1]

SessCount(n) == [sessCount EXCEPT ![n] = @ + 1]

\* No fan-in was closed by the last step.
NoRound == [before |-> <<>>, writes |-> <<>>]

NoCall == [op |-> "none", action |-> "none"]

\* Text generation and the audit log both working.
AllUp == [llm |-> "up", db |-> "ok"]

\* No response of a call that ended without running the graph.
NoHttp == [op |-> "none", code |-> 0, body |-> new_session_state, calls |-> 0]

Requests == {1, 2}

\* A request that has not begun.
NoRequest == [pc |-> "idle", snapshot |-> new_session_state]

\* The two states the supervisor is compared on.
ProbeIds == {1, 2}

\* A state the supervisor has not been run on yet.
Unrouted(state) == [state |-> state, update |-> EmptyUpdate, label |-> "none", done |-> FALSE]

NoProbe == [i \in ProbeIds |-> Unrouted(new_session_state)]

Init ==
    /\ values = new_session_state
    /\ hasCheckpoint = FALSE
    /\ next = {}
    /\ writes = <<>>
    /\ phase = "idle"
    /\ call = NoCall
    /\ atCall = new_session_state
    /\ lastNode = "none"
    /\ supIn = new_session_state
    /\ label = "none"
    /\ runCount = ZeroCount
    /\ uuid = 0
    /\ resumes = 0
    /\ applied = NoRound
    /\ sessCount = ZeroCount
    /\ env = AllUp
    /\ http = NoHttp
    /\ req = [r \in Requests |-> NoRequest]
    /\ probe = NoProbe

\* create_session / run_full_session: the initial state is written to the
\* thread and the run starts at the entry point.
CreateSession ==
    /\ phase = "idle"
    /\ ~hasCheckpoint
    /\ values' = new_session_state
    /\ hasCheckpoint' = TRUE
    /\ next' = {"intent_interpreter"}
    /\ phase' = "running"
    /\ call' = [op |-> "create_session", action |-> "none"]
    /\ atCall' = new_session_state
    /\ lastNode' = "create_session"
    /\ runCount' = ZeroCount
    /\ applied' = NoRound
    /\ UNCHANGED <<writes, supIn, label, uuid, resumes, sessCount, env, req, probe>>
    /\ http' = NoHttp

IntentInterpreter ==
    /\ phase = "running"
    /\ next = {"intent_interpreter"}
    /\ values' = ApplyUpdate(values, log_agent_run(run_intent_interpreter(values)).result)
    /\ next' = Edges("intent_interpreter")
    /\ lastNode' = "intent_interpreter"
    /\ runCount' = Count("intent_interpreter")
    /\ sessCount' = SessCount("intent_interpreter")
    /\ applied' = NoRound
    /\ UNCHANGED <<hasCheckpoint, writes, phase, call, atCall, supIn, label, uuid,
                 resumes, env, http, req, probe>>

Drafting ==
    /\ phase = "running"
    /\ next = {"drafting"}
    /\ values' = ApplyUpdate(values,
                     log_agent_run(run_drafting_agent(values, uuid + 1, GeneratedContent)).result)
    /\ uuid' = uuid + 1
    /\ next' = Edges("drafting")
    /\ lastNode' = "drafting"
    /\ runCount' = Count("drafting")
    /\ sessCount' = SessCount("drafting")
    /\ applied' = NoRound
    /\ UNCHANGED <<hasCheckpoint, writes, phase, call, atCall, supIn, label, resumes,
                 env, http, req, probe>>

Revision ==
    /\ phase = "running"
    /\ next = {"revision"}
    /\ values' = ApplyUpdate(values,
                     log_agent_run(run_revision_agent(values, uuid + 1, GeneratedContent)).result)
    /\ uuid' = uuid + 1
    /\ next' = Edges("revision")
    /\ lastNode' = "revision"
    /\ runCount' = Count("revision")
    /\ sessCount' = SessCount("revision")
    /\ applied' = NoRound
    /\ UNCHANGED <<hasCheckpoint, writes, phase, call, atCall, supIn, label, resumes,
                 env, http, req, probe>>

\* One of the parallel critics completes.  It has read the snapshot the
\* superstep started from; its update waits in writes until its siblings are
\* done, and the last one to complete closes the superstep.
Critic(c) ==
    /\ phase = "running"
    /\ c \in next
    /\ c \in Critics
    /\ c \notin Completed(writes)
    /\ \E score \in CriticScores(c) :
         LET upd == log_agent_run(CriticUpdate(c, values, uuid + CriticIndex(c), score)).result
             w == Append(writes, [node |-> c, update |-> upd])
         IN IF Completed(w) = next
            THEN /\ values' = ApplyWrites(values, w)
                 /\ writes' = <<>>
                 /\ next' = Edges(c)
                 /\ uuid' = uuid + Cardinality(Critics)
                 /\ applied' = [before |-> values.reviews, writes |-> w]
            ELSE /\ writes' = w
                 /\ applied' = NoRound
                 /\ UNCHANGED <<values, next, uuid>>
    /\ lastNode' = c
    /\ runCount' = Count(c)
    /\ sessCount' = SessCount(c)
    /\ UNCHANGED <<hasCheckpoint, phase, call, atCall, supIn, label, resumes, env, http,
                 req, probe>>

\* The supervisor node and its conditional edge: the router reads the state
\* with the supervisor's own update applied.
Supervisor ==
    /\ phase = "running"
    /\ next = {"supervisor"}
    /\ LET upd == run_supervisor(values)
           post == ApplyUpdate(values, upd)
           l == route_supervisor(RoutedState(values, upd))
       IN /\ values' = post
          /\ label' = l
          /\ next' = SupervisorEdges(l)
          /\ phase' = IF SupervisorEdges(l) = {} THEN "returned" ELSE "running"
    /\ supIn' = values
    /\ lastNode' = "supervisor"
    /\ runCount' = Count("supervisor")
    /\ sessCount' = SessCount("supervisor")
    /\ applied' = NoRound
    /\ UNCHANGED <<hasCheckpoint, writes, call, atCall, uuid, resumes, env, http, req, probe>>

\* await_human runs, and the run is interrupted after it.
AwaitHuman ==
    /\ phase = "running"
    /\ next = {"await_human"}
    /\ values' = ApplyUpdate(values, await_human(values))
    /\ next' = Edges("await_human")
    /\ phase' = IF "await_human" \in interrupt_after THEN "returned" ELSE "running"
    /\ lastNode' = "await_human"
    /\ runCount' = Count("await_human")
    /\ sessCount' = SessCount("await_human")
    /\ applied' = NoRound
    /\ UNCHANGED <<hasCheckpoint, writes, call, atCall, supIn, label, uuid, resumes, env,
                 http, req, probe>>

----------------------------------------------------------------------------
(* API: api.py *)

\* The patch human_approve builds from the snapshot it read.
\* Variant: a requested revision restarts the iteration counter.
human_approve_updates_ResetIteration(state, id, action, new_content) ==
    [reviews |-> Append(state.reviews, Review(id, "HumanReviewer", state)),
     status |-> IF action = "APPROVE_FINAL" THEN "APPROVED"
                ELSE IF action = "REJECT" THEN "REJECTED" ELSE "REVISING",
     approve_after_revision |-> (action = "APPROVE_CONTINUE") \/ state.approve_after_revision,
     iteration |-> 0]

human_approve_updates(state, id, action, new_content) ==
    LET human_review == Review(id, "HumanReviewer", state)
        serialized_reviews == Append(state.reviews, human_review)
        draft_update ==
            IF state.current_draft # NoDraft /\ new_content # state.current_draft.content
            THEN [current_draft |-> [state.current_draft EXCEPT !.content = new_content]]
            ELSE EmptyUpdate
        action_update ==
            IF action = "APPROVE_FINAL" THEN [status |-> "APPROVED"]
            ELSE IF action = "APPROVE_CONTINUE"
            THEN [status |-> "REVISING", approve_after_revision |-> TRUE]
            ELSE IF action = "REQUEST_REVISION" THEN [status |-> "REVISING"]
            ELSE IF action = "REJECT" THEN [status |-> "REJECTED"]
            ELSE EmptyUpdate
    IN [reviews |-> serialized_reviews] @@ draft_update @@ action_update

\* human_approve on a session that has a checkpoint: the patch is applied as
\* if written by await_human, so the run resumes along await_human -> supervisor.
HumanApprove ==
    /\ phase = "returned"
    /\ hasCheckpoint
    /\ resumes < MaxResumes
    /\ \E action \in HumanActions, new_content \in HumanContents :
         /\ values' = ApplyUpdate(values,
                          human_approve_updates(values, uuid + 1, action, new_content))
         /\ call' = [op |-> "human_approve", action |-> action]
    /\ uuid' = uuid + 1
    /\ next' = Edges("await_human")
    /\ writes' = <<>>
    /\ phase' = "running"
    /\ atCall' = values
    /\ lastNode' = "human_approve"
    /\ runCount' = ZeroCount
    /\ resumes' = resumes + 1
    /\ applied' = NoRound
    /\ UNCHANGED <<hasCheckpoint, supIn, label, sessCount, env, req, probe>>
    /\ http' = NoHttp

Next ==
    \/ CreateSession
    \/ IntentInterpreter
    \/ Drafting
    \/ \E c \in Critics : Critic(c)
    \/ Supervisor
    \/ AwaitHuman
    \/ Revision
    \/ HumanApprove

Spec == Init /\ [][Next]_vars

----------------------------------------------------------------------------
(* human_approve as it runs when two requests for the same session are in  *)
(* flight: the handler awaits aget_state, aupdate_state and ainvoke one    *)
(* after the other and holds no lock, so the steps of two requests         *)
(* interleave.  The requests are issued on a suspended session.  The      *)
(* interleavings kept are those in which both patches are applied and both *)
(* resumes begin before the first node of the resumed run completes; the   *)
(* executor the first resume starts is the one whose nodes are run, the    *)
(* second resume joins it.                                                 *)

\* aget_state: the request reads the latest checkpoint (api.py line 107).
ReadSnapshot(r) ==
    /\ phase = "returned"
    /\ hasCheckpoint
    /\ values.status = "AWAITING_HUMAN" \/ lastNode = "human_approve"
    /\ req[r].pc = "idle"
    /\ req' = [req EXCEPT ![r] = [pc |-> "read", snapshot |-> values]]
    /\ UNCHANGED <<values, hasCheckpoint, next, writes, phase, call, atCall, lastNode,
                   supIn, label, runCount, uuid, resumes, applied, sessCount,
                   env, http, probe>>

\* aupdate_state: the patch built from the snapshot the request read is
\* applied to the checkpoint as it is now (api.py lines 113-162).
ApplyPatch(r) ==
    /\ phase = "returned"
    /\ req[r].pc = "read"
    /\ \E action \in HumanActions, new_content \in HumanContents :
         /\ values' = ApplyUpdate(values,
                          human_approve_updates(req[r].snapshot, uuid + 1, action, new_content))
         /\ call' = [op |-> "human_approve", action |-> action]
    /\ uuid' = uuid + 1
    /\ next' = Edges("await_human")
    /\ writes' = <<>>
    /\ atCall' = req[r].snapshot
    /\ lastNode' = "human_approve"
    /\ resumes' = resumes + 1
    /\ applied' = NoRound
    /\ req' = [req EXCEPT ![r].pc = "patched"]
    /\ UNCHANGED <<hasCheckpoint, phase, supIn, label, runCount, sessCount, env, http, probe>>

\* ainvoke(None): the request starts an executor on the thread (api.py line
\* 166), whether or not another request's executor is running on it.
ResumeGraph(r) ==
    /\ req[r].pc = "patched"
    /\ lastNode = "human_approve"
    /\ phase' = "running"
    /\ runCount' = IF phase = "running" THEN runCount ELSE ZeroCount
    /\ req' = [req EXCEPT ![r].pc = "resumed"]
    /\ UNCHANGED <<values, hasCheckpoint, next, writes, call, atCall, lastNode, supIn,
                   label, uuid, resumes, applied, sessCount, env, http, probe>>

\* The run has stopped and the handler returns its response (api.py line 185).
Respond(r) ==
    /\ req[r].pc = "resumed"
    /\ phase = "returned"
    /\ req' = [req EXCEPT ![r].pc = "done"]
    /\ UNCHANGED <<values, hasCheckpoint, next, writes, phase, call, atCall, lastNode,
                   supIn, label, runCount, uuid, resumes, applied, sessCount,
                   env, http, probe>>

NextConcurrent ==
    \/ CreateSession
    \/ IntentInterpreter
    \/ Drafting
    \/ \E c \in Critics : Critic(c)
    \/ Supervisor
    \/ AwaitHuman
    \/ (Revision /\ sessCount["revision"] < MaxConcurrentRevisions)
    \/ \E r \in Requests : ReadSnapshot(r)
    \/ \E r \in Requests : ApplyPatch(r)
    \/ \E r \in Requests : ResumeGraph(r)
    \/ \E r \in Requests : Respond(r)

SpecConcurrent == Init /\ [][NextConcurrent]_vars

----------------------------------------------------------------------------
(* The API around the runs: get_session_state, the not-found answer of     *)
(* human_approve, and a checkpoint-store operation that fails.  A handler  *)
(* is a function from the store (the thread's checkpoint) to the store it  *)
(* leaves and the response it gives.                                       *)

Store == [has |-> hasCheckpoint, values |-> values, next |-> next]

\* graph.aget_state: the latest checkpoint of the thread, with empty values
\* when the thread has none.
aget_state(store) == [found |-> store.has, values |-> store.values, next |-> store.next]

\* Variant: every thread is taken to have a checkpoint.
snapshot_missing_Never(snapshot) == FALSE

\* "not snapshot or not snapshot.values"
snapshot_missing(snapshot) == ~snapshot.found

\* Variant: reading the state takes the pending nodes off the checkpoint.
get_session_state_Consuming(store) ==
    [store |-> [store EXCEPT !.next = {}], code |-> 200, body |-> store.values]

get_session_state(store) ==
    LET snapshot == aget_state(store)
    IN IF snapshot_missing(snapshot)
       THEN [store |-> store, code |-> 404, body |-> new_session_state]
       ELSE [store |-> store, code |-> 200, body |-> snapshot.values]

\* Consecutive calls of the operation, this one included.
Calls(op) == IF http.op = op THEN http.calls + 1 ELSE 1

\* GET /sessions/{id}/state, between other operations.
GetSessionState ==
    /\ phase # "running"
    /\ Calls("get_session_state") <= MaxGets
    /\ LET r == get_session_state(Store)
       IN /\ hasCheckpoint' = r.store.has
          /\ values' = r.store.values
          /\ next' = r.store.next
          /\ http' = [op |-> "get_session_state", code |-> r.code, body |-> r.body,
                      calls |-> Calls("get_session_state")]
    /\ UNCHANGED <<writes, phase, call, atCall, lastNode, supIn, label, runCount, uuid,
                   resumes, applied, sessCount, env, req, probe>>

\* human_approve on a thread without a checkpoint: HTTP 404 (api.py lines 107-109).
HumanApproveNotFound ==
    /\ phase # "running"
    /\ Calls("human_approve") <= 1
    /\ snapshot_missing(aget_state(Store))
    /\ http' = [op |-> "human_approve", code |-> 404, body |-> new_session_state,
                calls |-> 1]
    /\ UNCHANGED <<values, hasCheckpoint, next, writes, phase, call, atCall, lastNode,
                   supIn, label, runCount, uuid, resumes, applied, sessCount,
                   env, req, probe>>

\* aget_state or aupdate_state of human_approve raises: nothing has been
\* written, the handler answers HTTP 500 (api.py lines 189-193).
HumanApproveStoreFails ==
    /\ phase = "returned"
    /\ hasCheckpoint
    /\ resumes < MaxApiResumes
    /\ \E action \in HumanActions : call' = [op |-> "human_approve", action |-> action]
    /\ atCall' = values
    /\ resumes' = resumes + 1
    /\ phase' = "failed"
    /\ http' = [op |-> "human_approve", code |-> 500, body |-> new_session_state,
                calls |-> 1]
    /\ UNCHANGED <<values, hasCheckpoint, next, writes, lastNode, supIn, label, runCount,
                   uuid, applied, sessCount, env, req, probe>>

\* A checkpoint-store operation raises inside ainvoke: the run stops where it
\* is, the checkpoints written so far stay, and the handler answers HTTP 500
\* (api.py lines 91-92 and 189-193).
RunFails ==
    /\ phase = "running"
    /\ phase' = "failed"
    /\ writes' = <<>>
    /\ applied' = NoRound
    /\ http' = [op |-> call.op, code |-> 500, body |-> new_session_state, calls |-> 1]
    /\ UNCHANGED <<values, hasCheckpoint, next, call, atCall, lastNode, supIn, label,
                   runCount, uuid, resumes, sessCount, env, req, probe>>

NextApi ==
    \/ CreateSession
    \/ IntentInterpreter
    \/ Drafting
    \/ \E c \in Critics : Critic(c)
    \/ Supervisor
    \/ AwaitHuman
    \/ Revision
    \/ (HumanApprove /\ resumes < MaxApiResumes)
    \/ GetSessionState
    \/ HumanApproveNotFound
    \/ HumanApproveStoreFails
    \/ RunFails

SpecApi == Init /\ [][NextApi]_vars

----------------------------------------------------------------------------
(* The workflow with a collaborator out of order for the whole session:    *)
(* every text-generation call raises, or every audit write raises at one   *)
(* of its steps, or both.                                                  *)

DegradedEnvs ==
    {e \in [llm : {"up", "down"}, db : DbOutcomes] : e # AllUp}

InitDegraded ==
    /\ values = new_session_state
    /\ hasCheckpoint = FALSE
    /\ next = {}
    /\ writes = <<>>
    /\ phase = "idle"
    /\ call = NoCall
    /\ atCall = new_session_state
    /\ lastNode = "none"
    /\ supIn = new_session_state
    /\ label = "none"
    /\ runCount = ZeroCount
    /\ uuid = 0
    /\ resumes = 0
    /\ applied = NoRound
    /\ sessCount = ZeroCount
    /\ env \in DegradedEnvs
    /\ http = NoHttp
    /\ req = [r \in Requests |-> NoRequest]
    /\ probe = NoProbe

NextDegraded ==
    \/ CreateSession
    \/ IntentInterpreter
    \/ Drafting
    \/ \E c \in Critics : Critic(c)
    \/ Supervisor
    \/ AwaitHuman
    \/ Revision
    \/ (HumanApprove /\ resumes < MaxApiResumes)

SpecDegraded == InitDegraded /\ [][NextDegraded]_vars

----------------------------------------------------------------------------
(* The supervisor and its router as functions of the state: they are run   *)
(* on two states drawn from a bounded set of FoundryState values that vary *)
(* in the fields the supervisor reads and in fields it does not read.      *)

ProbeDraft ==
    [id |-> 1, content |-> "generated", created_by |-> "DraftingAgent",
     version_number |-> 1, parent_draft_id |-> 0]

ProbeReviews ==
    {<<>>,
     <<[id |-> 2, agent_name |-> "ClinicalCritic", target_draft_id |-> 1],
       [id |-> 3, agent_name |-> "EmpathyToneAgent", target_draft_id |-> 1],
       [id |-> 4, agent_name |-> "SafetyGuardian", target_draft_id |-> 1]>>}

SupervisorInputs ==
    {[new_session_state EXCEPT
          !.current_draft = ProbeDraft,
          !.status = st, !.safety_score = sa, !.empathy_score = em,
          !.clinical_score = 60, !.iteration = it, !.approve_after_revision = f,
          !.reviews = rv, !.user_intent = ui] :
       st \in {"REVIEWING", "REVISING", "APPROVED"}, sa \in {10, 70}, em \in {59, 60},
       it \in {1, DEFAULT_MAX_ITERATIONS}, f \in BOOLEAN,
       rv \in ProbeReviews, ui \in {"raw", "normalized"}}

InitRouter ==
    /\ values = new_session_state
    /\ hasCheckpoint = FALSE
    /\ next = {}
    /\ writes = <<>>
    /\ phase = "idle"
    /\ call = NoCall
    /\ atCall = new_session_state
    /\ lastNode = "none"
    /\ supIn = new_session_state
    /\ label = "none"
    /\ runCount = ZeroCount
    /\ uuid = 0
    /\ resumes = 0
    /\ applied = NoRound
    /\ sessCount = ZeroCount
    /\ env = AllUp
    /\ http = NoHttp
    /\ req = [r \in Requests |-> NoRequest]
    /\ probe \in [ProbeIds -> {Unrouted(s) : s \in SupervisorInputs}]

\* The supervisor node and its conditional edge on one of the two states:
\* the update it returns, and the label the router gives for the state with
\* that update merged.
SuperviseProbe(i) ==
    /\ ~probe[i].done
    /\ LET upd == run_supervisor(probe[i].state)
       IN probe' = [probe EXCEPT ![i] = [state |-> probe[i].state, update |-> upd,
                                         label |-> route_supervisor(
                                                       RoutedState(probe[i].state, upd)),
                                         done |-> TRUE]]
    /\ UNCHANGED <<values, hasCheckpoint, next, writes, phase, call, atCall, lastNode,
                   supIn, label, runCount, uuid, resumes, applied, sessCount, env, http,
                   req>>

NextRouter == \E i \in ProbeIds : SuperviseProbe(i)

SpecRouter == InitRouter /\ [][NextRouter]_vars

----------------------------------------------------------------------------
(* The router on its own: route_supervisor is applied to a state drawn     *)
(* from every combination of a bounded set of statuses, scores (absent or  *)
(* present), iterations, limits and flags, once directly and once after    *)
(* the supervisor's update, as the graph does.                             *)

RouterInputs ==
    {[new_session_state EXCEPT
          !.status = st, !.safety_score = sa, !.empathy_score = em,
          !.clinical_score = cl, !.iteration = it, !.max_iterations = mx,
          !.approve_after_revision = f] :
       st \in Statuses, sa \in {NoScore, 10, 70}, em \in {NoScore, 59, 60},
       cl \in {NoScore, 60}, it \in {0, 1, DEFAULT_MAX_ITERATIONS, DEFAULT_MAX_ITERATIONS + 1},
       mx \in {1, DEFAULT_MAX_ITERATIONS}, f \in BOOLEAN}

InitLabels ==
    /\ values = new_session_state
    /\ hasCheckpoint = FALSE
    /\ next = {}
    /\ writes = <<>>
    /\ phase = "idle"
    /\ call = NoCall
    /\ atCall = new_session_state
    /\ lastNode = "none"
    /\ supIn = new_session_state
    /\ label = "none"
    /\ runCount = ZeroCount
    /\ uuid = 0
    /\ resumes = 0
    /\ applied = NoRound
    /\ sessCount = ZeroCount
    /\ env = AllUp
    /\ http = NoHttp
    /\ req = [r \in Requests |-> NoRequest]
    /\ \E s \in RouterInputs : probe = [i \in ProbeIds |-> Unrouted(s)]

\* route_supervisor called on one of the two states as it is.
RouteProbe(i) ==
    /\ ~probe[i].done
    /\ probe' = [probe EXCEPT ![i] = [state |-> probe[i].state, update |-> EmptyUpdate,
                                      label |-> route_supervisor(probe[i].state),
                                      done |-> TRUE]]
    /\ UNCHANGED <<values, hasCheckpoint, next, writes, phase, call, atCall, lastNode,
                   supIn, label, runCount, uuid, resumes, applied, sessCount, env, http,
                   req>>

NextLabels ==
    \/ RouteProbe(1)
    \/ SuperviseProbe(2)

SpecLabels == InitLabels /\ [][NextLabels]_vars

----------------------------------------------------------------------------
(* One fan-out round on its own: the three critics are started on a state  *)
(* drawn from a bounded set of FoundryState values, with or without a      *)
(* current draft and with or without earlier reviews, and they complete in *)
(* any order.                                                              *)

RoundDrafts ==
    {NoDraft,
     [id |-> 3, content |-> "generated", created_by |-> "DraftingAgent",
      version_number |-> 1, parent_draft_id |-> 0]}

RoundPriorReviews ==
    {<<>>,
     <<[id |-> 1, agent_name |-> "SafetyGuardian", target_draft_id |-> 2]>>,
     <<[id |-> 1, agent_name |-> "SafetyGuardian", target_draft_id |-> 2],
       [id |-> 2, agent_name |-> "Human", target_draft_id |-> 2]>>}

RoundInputs ==
    {[new_session_state EXCEPT !.status = "REVIEWING",
                               !.current_draft = d,
                               !.reviews = r,
                               !.iteration = IF d = NoDraft THEN 0 ELSE 1] :
        d \in RoundDrafts, r \in RoundPriorReviews}

InitRound ==
    /\ values \in RoundInputs
    /\ hasCheckpoint = TRUE
    /\ next = Critics
    /\ writes = <<>>
    /\ phase = "running"
    /\ call = [op |-> "create_session", action |-> "none"]
    /\ atCall = new_session_state
    /\ lastNode = "drafting"
    /\ supIn = new_session_state
    /\ label = "none"
    /\ runCount = ZeroCount
    /\ uuid = 3
    /\ resumes = 0
    /\ applied = NoRound
    /\ sessCount = ZeroCount
    /\ env = AllUp
    /\ http = NoHttp
    /\ req = [r \in Requests |-> NoRequest]
    /\ probe = NoProbe

NextRound == \E c \in Critics : Critic(c)

SpecRound == InitRound /\ [][NextRound]_vars

----------------------------------------------------------------------------
(* Vocabulary of the claims *)

\* All three scores are present and meet the thresholds 0.7, 0.6 and 0.6.
AllScoresPass(s) ==
    /\ s.safety_score # NoScore /\ s.safety_score >= 70
    /\ s.empathy_score # NoScore /\ s.empathy_score >= 60
    /\ s.clinical_score # NoScore /\ s.clinical_score >= 60

\* The safety score is present and below the hard floor 0.2.
BelowSafetyFloor(s) == s.safety_score # NoScore /\ s.safety_score < 20

\* A run invocation has handed control back to its caller.
Returned == phase = "returned"

\* The supervisor and its router have just taken a step: supIn is the state
\* the supervisor ran on, values the state after it, label the route taken.
SupervisorRan == lastNode = "supervisor"

InStartRun == call.op = "create_session"

ResumedWith(action) == call.op = "human_approve" /\ call.action = action

ReviewsBy(agent) == {i \in DOMAIN values.reviews : values.reviews[i].agent_name = agent}

NoCriticRan == \A c \in Critics : runCount[c] = 0

----------------------------------------------------------------------------
(* C1: a fresh start run (create_session on a new session) returns only    *)
(* with status AWAITING_HUMAN or FAILED, whatever the critics score.       *)
C1_StartReturnsAwaitingOrFailed ==
    (Returned /\ InStartRun) => values.status \in {"AWAITING_HUMAN", "FAILED"}

C1_Witness ==
    /\ Returned /\ InStartRun
    /\ values.status = "AWAITING_HUMAN"
    /\ runCount["revision"] >= 1

(* C2: whenever a run returns with status AWAITING_HUMAN, there is a       *)
(* current draft, reviews holds at least 3 entries with one from each of   *)
(* the three critics, the three scores are non-null and iteration >= 1.    *)
C2_AwaitingHumanHasArtifacts ==
    (Returned /\ values.status = "AWAITING_HUMAN") =>
        /\ values.current_draft # NoDraft
        /\ Len(values.reviews) >= 3
        /\ ReviewsBy("SafetyGuardian") # {}
        /\ ReviewsBy("EmpathyToneAgent") # {}
        /\ ReviewsBy("ClinicalCritic") # {}
        /\ values.safety_score # NoScore
        /\ values.empathy_score # NoScore
        /\ values.clinical_score # NoScore
        /\ values.iteration >= 1

C2_Witness ==
    /\ Returned /\ values.status = "AWAITING_HUMAN"
    /\ Len(values.reviews) = 3
    /\ values.iteration = 1

(* C3: if the first review round of a start run has all three scores       *)
(* meeting the thresholds, the supervisor routes to await_human, the       *)
(* revision node never runs, and the run halts with status AWAITING_HUMAN  *)
(* and iteration >= 1.                                                     *)
FirstRoundPassed ==
    /\ InStartRun
    /\ runCount["supervisor"] = 1
    /\ AllScoresPass(supIn)

C3_FirstRoundPassHalts ==
    FirstRoundPassed =>
        /\ label = "await_human"
        /\ runCount["revision"] = 0
        /\ phase = "running" => next = {"await_human"}
        /\ Returned => (values.status = "AWAITING_HUMAN" /\ values.iteration >= 1)

C3_Witness ==
    /\ FirstRoundPassed
    /\ Returned
    /\ values.status = "AWAITING_HUMAN"
    /\ values.safety_score = 70

(* C4: in normal mode (approve_after_revision false, status not FAILED,    *)
(* APPROVED, REVISING or REJECTED) the supervisor routes to await_human    *)
(* if and only if all three scores pass and iteration >= 1; otherwise to   *)
(* revision when iteration < max_iterations and to the failure terminal    *)
(* when iteration >= max_iterations.                                       *)
NormalMode(s) ==
    /\ ~s.approve_after_revision
    /\ s.status \notin {"FAILED", "APPROVED", "REVISING", "REJECTED"}

NormalRouting(s, l) ==
    IF AllScoresPass(s) /\ s.iteration >= 1 THEN l = "await_human"
    ELSE IF s.iteration < s.max_iterations THEN l = "revision"
    ELSE l = "FAILED"

C4_NormalModeRouting_Original ==
    (SupervisorRan /\ NormalMode(supIn)) => NormalRouting(supIn, label)

\* As amended: the same, for a state whose safety score is not below the 0.2
\* floor; below the floor the route is the failure terminal at any iteration.
C4_NormalModeRouting ==
    (SupervisorRan /\ NormalMode(supIn)) =>
        IF BelowSafetyFloor(supIn)
        THEN label = "FAILED"
        ELSE NormalRouting(supIn, label)

C4_Witness ==
    /\ SupervisorRan /\ NormalMode(supIn)
    /\ ~BelowSafetyFloor(supIn)
    /\ ~AllScoresPass(supIn)
    /\ supIn.iteration = supIn.max_iterations
    /\ label = "FAILED"

(* C5: whenever the supervisor runs on a state whose safety_score is       *)
(* non-null and below 0.2, it sets status FAILED with a non-null error and *)
(* routes to the failure terminal, whatever the other scores, iteration,   *)
(* approve_after_revision and the status held before.                      *)
C5_SafetyFloorFails ==
    (SupervisorRan /\ BelowSafetyFloor(supIn)) =>
        /\ values.status = "FAILED"
        /\ values.error # NoError
        /\ label = "FAILED"
        /\ next = {}
        /\ Returned

C5_Witness ==
    /\ SupervisorRan /\ BelowSafetyFloor(supIn)
    /\ supIn.status = "APPROVED"
    /\ values.status = "FAILED"

(* C6: whenever the supervisor runs with iteration >= max_iterations and   *)
(* the three scores not all passing, it routes to the failure terminal and *)
(* the resulting state has status FAILED with the iteration-exhaustion     *)
(* error message.                                                          *)
Exhausted(s) == s.iteration >= s.max_iterations /\ ~AllScoresPass(s)

C6_ExhaustionFails_Original ==
    (SupervisorRan /\ Exhausted(supIn)) =>
        /\ label = "FAILED"
        /\ values.status = "FAILED"
        /\ values.error = MaxIterationsError

\* As amended: the error is the iteration-exhaustion message unless the
\* safety score is below the 0.2 floor, when it is the critical-safety one.
C6_ExhaustionFails ==
    (SupervisorRan /\ Exhausted(supIn)) =>
        /\ label = "FAILED"
        /\ values.status = "FAILED"
        /\ values.error = IF BelowSafetyFloor(supIn)
                          THEN CriticalSafetyError ELSE MaxIterationsError

C6_Witness ==
    /\ SupervisorRan /\ Exhausted(supIn)
    /\ ~BelowSafetyFloor(supIn)
    /\ supIn.error = NoError
    /\ values.error = MaxIterationsError

(* C7: when a session suspended at AWAITING_HUMAN is resumed through       *)
(* human_approve with APPROVE_FINAL, the run goes straight to the success  *)
(* terminal and ends APPROVED: drafting, revision and the three critics do *)
(* not run, and iteration, draft_history and the three scores are as they  *)
(* were before the call.                                                   *)
ApproveFinalOnSuspended ==
    /\ ResumedWith("APPROVE_FINAL")
    /\ atCall.status = "AWAITING_HUMAN"

C7_ApproveFinalGoesToSuccess ==
    ApproveFinalOnSuspended =>
        /\ phase = "running" => next = {"supervisor"}
        /\ Returned => (values.status = "APPROVED" /\ label = "approved" /\ next = {})
        /\ runCount["drafting"] = 0
        /\ runCount["revision"] = 0
        /\ NoCriticRan
        /\ values.iteration = atCall.iteration
        /\ values.draft_history = atCall.draft_history
        /\ values.safety_score = atCall.safety_score
        /\ values.empathy_score = atCall.empathy_score
        /\ values.clinical_score = atCall.clinical_score

C7_Witness ==
    /\ ApproveFinalOnSuspended
    /\ Returned
    /\ values.status = "APPROVED"
    /\ runCount["supervisor"] = 1
    /\ values.current_draft.content = "edited"

(* C8: when human_approve is called with REJECT, the resumed run routes    *)
(* directly to the rejection terminal and ends REJECTED, whatever the      *)
(* scores, iteration and max_iterations, without running revision or any   *)
(* critic.                                                                 *)
RejectedDirectly ==
    /\ phase = "running" => next = {"supervisor"}
    /\ Returned => (values.status = "REJECTED" /\ label = "rejected" /\ next = {})
    /\ runCount["revision"] = 0
    /\ NoCriticRan

SupervisorFails(s) == BelowSafetyFloor(s) \/ Exhausted(s)

C9_ErrorRoutesToFailure ==
    (SupervisorRan /\ supIn.error # NoError) =>
        /\ label = "FAILED"
        /\ next = {}

C9_Witness ==
    /\ SupervisorRan
    /\ supIn.error = MaxIterationsError
    /\ supIn.status = "APPROVED"
    /\ label = "FAILED"

(* C10: in auto-finalize mode (approve_after_revision true, judging a      *)
(* round that followed a revision) the supervisor routes to the success    *)
(* terminal with status APPROVED when all scores pass; otherwise to the    *)
(* failure terminal with status FAILED when iteration >= max_iterations;   *)
(* otherwise back to revision; never to await_human.                       *)
AutoFinalizeMode(s) == s.approve_after_revision /\ s.status = "REVIEWING"

AutoFinalizeRouting(s, l, post) ==
    IF AllScoresPass(s) THEN l = "approved" /\ post.status = "APPROVED"
    ELSE IF s.iteration >= s.max_iterations THEN l = "FAILED" /\ post.status = "FAILED"
    ELSE l = "revision"

C10_AutoFinalizeRouting_Original ==
    (SupervisorRan /\ AutoFinalizeMode(supIn)) =>
        /\ AutoFinalizeRouting(supIn, label, values)
        /\ label # "await_human"

\* As amended: the same, for a state whose safety score is not below the 0.2
\* floor; below the floor the route is the failure terminal with status
\* FAILED at any iteration.
C10_AutoFinalizeRouting ==
    (SupervisorRan /\ AutoFinalizeMode(supIn)) =>
        /\ IF BelowSafetyFloor(supIn)
           THEN label = "FAILED" /\ values.status = "FAILED"
           ELSE AutoFinalizeRouting(supIn, label, values)
        /\ label # "await_human"

C10_Witness ==
    /\ SupervisorRan /\ AutoFinalizeMode(supIn)
    /\ AllScoresPass(supIn)
    /\ label = "approved"
    /\ values.status = "APPROVED"

----------------------------------------------------------------------------
(* Vocabulary of the fan-out claims: applied holds the reviews before the  *)
(* round and the siblings' updates in completion order.                    *)

RoundClosed == applied.writes # <<>>

\* The reviews a node returned in the closed round (none when its update has
\* no reviews key).
ReturnedBy(node) ==
    LET mine == SelectSeq(applied.writes, LAMBDA x : x.node = node)
    IN IF mine # <<>> /\ "reviews" \in DOMAIN mine[1].update
       THEN mine[1].update.reviews ELSE <<>>

\* The score a node returned in the closed round under the given key, or the
\* fallback when it returned none.
ScoreReturnedBy(node, key, fallback) ==
    LET mine == SelectSeq(applied.writes, LAMBDA x : x.node = node)
    IN IF mine # <<>> /\ key \in DOMAIN mine[1].update
       THEN mine[1].update[key] ELSE fallback

IsPrefix(a, b) == Len(a) <= Len(b) /\ SubSeq(b, 1, Len(a)) = a

C12_FanInAppendsEachOnce ==
    RoundClosed =>
        LET added == SubSeq(values.reviews, Len(applied.before) + 1,
                            Len(values.reviews))
        IN /\ IsPrefix(applied.before, values.reviews)
           /\ Len(added) = Len(ReturnedBy("safety")) + Len(ReturnedBy("empathy"))
                             + Len(ReturnedBy("clinical"))
           /\ \A c \in Critics : \A i \in DOMAIN ReturnedBy(c) :
                Cardinality({j \in DOMAIN added : added[j] = ReturnedBy(c)[i]}) = 1

\* A round on a state with earlier reviews and no current draft: every
\* sibling returned the empty update and the earlier reviews are all there.
C12_Witness ==
    /\ RoundClosed
    /\ Len(applied.writes) = 3
    /\ \A c \in Critics : ReturnedBy(c) = <<>>
    /\ Len(applied.before) = 2
    /\ values.reviews = applied.before

\* Fan-out rounds the current run has closed, and whether the supervisor has
\* yet to run on the last of them.
RoundsClosed ==
    CHOOSE k \in {runCount[c] : c \in Critics} :
        \A c \in Critics : runCount[c] >= k

SupervisorPending == lastNode \in Critics /\ writes = <<>>

\* A resumed run enters at the supervisor, one execution that follows no round.
ResumeEntryRuns ==
    IF call.op = "human_approve" /\ lastNode # "human_approve" THEN 1 ELSE 0

(* C13: the supervisor never runs on a half-merged round and runs exactly  *)
(* once per round: when it runs after a critic, no write is still buffered,*)
(* the updates of all three critics have been merged and it reads that     *)
(* merged state; its executions in a run number the rounds closed (less    *)
(* the one it has yet to handle, plus the entry of a resumed run); and the *)
(* state does not change while a round is open, so the three critics read  *)
(* the same snapshot.                                                      *)
C13_SupervisorOncePerWholeRound ==
    [][/\ (lastNode' = "supervisor" /\ lastNode \in Critics) =>
              /\ writes = <<>>
              /\ {applied.writes[i].node : i \in DOMAIN applied.writes} = Critics
              /\ Len(applied.writes) = 3
              /\ supIn' = values
       /\ (lastNode' \in Critics /\ writes' # <<>>) => values' = values
       /\ runCount'["supervisor"] =
              RoundsClosed' - (IF SupervisorPending' THEN 1 ELSE 0) + ResumeEntryRuns'
      ]_vars

\* The supervisor has handled the second round of a start run.
C13_Witness ==
    /\ InStartRun
    /\ lastNode = "supervisor"
    /\ runCount["supervisor"] = 2
    /\ \A c \in Critics : runCount[c] = 2
    /\ Len(supIn.reviews) = 6

\* Executions of the artifact-producing nodes over the whole session.
ArtifactSteps == sessCount["drafting"] + sessCount["revision"]

(* C14: in every reachable state, with N the executions of drafting and    *)
(* revision so far over the start and all resumes, the length of           *)
(* draft_history plus one for a current draft equals N, and iteration      *)
(* equals N.                                                               *)
C14_ArtifactCount ==
    /\ Len(values.draft_history)
         + (IF values.current_draft # NoDraft THEN 1 ELSE 0) = ArtifactSteps
    /\ values.iteration = ArtifactSteps

\* Three artifacts produced, the last one in a resumed run.
C14_Witness ==
    /\ call.op = "human_approve"
    /\ lastNode = "revision"
    /\ ArtifactSteps = 3
    /\ Len(values.draft_history) = 2
    /\ values.iteration = 3

(* C15: draft_history grows only at its end: each step leaves the earlier  *)
(* value as a prefix of the later one, and a step that replaces the        *)
(* current draft by a new artifact appends exactly the previous current    *)
(* draft, with the content it had at that moment.                          *)
C15_HistoryAppendsPrevious ==
    [][/\ IsPrefix(values.draft_history, values'.draft_history)
       /\ (values.current_draft # NoDraft
             /\ values'.current_draft.id # values.current_draft.id) =>
              values'.draft_history = Append(values.draft_history, values.current_draft)
      ]_vars

\* A draft edited by the human was replaced by a revision and is kept, as
\* edited, at the end of the history.
C15_Witness ==
    /\ lastNode = "revision"
    /\ Len(values.draft_history) = 2
    /\ values.draft_history[2].content = "edited"
    /\ values.draft_history[2].id = values.current_draft.parent_draft_id

(* C16: reviews is append-only: across node executions and human_approve   *)
(* patches every step leaves the earlier value of reviews as a prefix of   *)
(* the later one (prefix being transitive, every earlier value is a prefix *)
(* of every later value).                                                  *)
C16_ReviewsAppendOnly ==
    [][IsPrefix(values.reviews, values'.reviews)]_vars

\* A human_approve patch applied on six stored reviews, then a later round.
C16_Witness ==
    /\ call.op = "human_approve"
    /\ Len(atCall.reviews) = 6
    /\ RoundClosed
    /\ Len(values.reviews) > 2 * Len(atCall.reviews) + 1
    /\ IsPrefix(atCall.reviews, values.reviews)

(* C17: iteration never decreases and changes only by +1, only in a step   *)
(* of drafting or revision that produces a new draft; the critics, the     *)
(* supervisor, await_human and the human_approve patch leave it unchanged. *)
C17_IterationFrame ==
    [][\/ values'.iteration = values.iteration
       \/ /\ values'.iteration = values.iteration + 1
          /\ lastNode' \in {"drafting", "revision"}
          /\ values'.current_draft # NoDraft
          /\ values'.current_draft.id # values.current_draft.id
      ]_vars

\* A human_approve patch that requests a revision at iteration 2 has been
\* applied and the revision has then produced the third draft.
C17_Witness ==
    /\ ResumedWith("REQUEST_REVISION")
    /\ atCall.iteration = 2
    /\ lastNode = "revision"
    /\ values.iteration = 3

(* C18: every run invocation that returns, a start or a resume, returns    *)
(* either suspended after await_human with status AWAITING_HUMAN or at the *)
(* end of the graph with status APPROVED, FAILED or REJECTED; it never     *)
(* returns with status INIT, DRAFTING, REVIEWING or REVISING, and it has   *)
(* nodes left to run exactly when the status is AWAITING_HUMAN.            *)
C18_ReturnsSuspendedOrTerminal ==
    Returned =>
        /\ values.status \in {"AWAITING_HUMAN", "APPROVED", "FAILED", "REJECTED"}
        /\ values.status \notin {"INIT", "DRAFTING", "REVIEWING", "REVISING"}
        /\ (next # {}) <=> (values.status = "AWAITING_HUMAN")
        /\ (next # {}) => (lastNode = "await_human" /\ next = {"supervisor"})

\* A resumed run that went through a revision round has returned suspended.
C18_Witness ==
    /\ Returned
    /\ call.op = "human_approve"
    /\ runCount["revision"] = 1
    /\ values.status = "AWAITING_HUMAN"
    /\ next = {"supervisor"}

(* C19: on every resume through human_approve the first node executed is  *)
(* the supervisor: the step that follows the patch is the supervisor's, so *)
(* await_human is not executed before it; intent_interpreter and drafting  *)
(* are not executed in a resumed run, and over one start and any number of *)
(* resumes each of them runs exactly once.                                 *)
C19_ResumeEntersAtSupervisor ==
    /\ [][lastNode = "human_approve" => lastNode' = "supervisor"]_vars
    /\ [](call.op = "human_approve" =>
            /\ runCount["intent_interpreter"] = 0
            /\ runCount["drafting"] = 0
            /\ runCount["await_human"] <= runCount["supervisor"]
            /\ sessCount["intent_interpreter"] = 1
            /\ sessCount["drafting"] = 1)

\* A second resume has run a whole revision round and returned.
C19_Witness ==
    /\ call.op = "human_approve"
    /\ resumes = 2
    /\ Returned
    /\ runCount["supervisor"] = 2
    /\ runCount["await_human"] = 1
    /\ sessCount["drafting"] = 1

(* C20: once the supervisor has set status FAILED the run invocation has   *)
(* ended: the run has returned with no node left to execute, the last node *)
(* executed is the supervisor, the state carries status FAILED and an      *)
(* error message, and the only step that can follow is a new human_approve *)
(* call.                                                                   *)
C20_FailedEndsRun ==
    /\ [](values.status = "FAILED" =>
            /\ Returned
            /\ next = {}
            /\ lastNode = "supervisor"
            /\ label = "FAILED"
            /\ values.error \in {CriticalSafetyError, MaxIterationsError})
    /\ [][values.status = "FAILED" => lastNode' = "human_approve"]_vars

\* An exhaustion failure set in a resumed run, after a revision round.
C20_Witness ==
    /\ values.status = "FAILED"
    /\ values.error = MaxIterationsError
    /\ call.op = "human_approve"
    /\ runCount["revision"] = 1
    /\ Returned

(* C21: at most one executor drives a session forward at a time: two       *)
(* human_approve requests for the same session never both read the same    *)
(* snapshot, both apply their patch and both resume the graph.             *)
C21_OneExecutorPerSession ==
    \A r1, r2 \in Requests :
        (r1 # r2 /\ req[r1].pc = "resumed" /\ req[r2].pc = "resumed")
            => req[r1].snapshot # req[r2].snapshot

\* The fields of the stored state the claim names.
SameWorkflowState(a, b) ==
    /\ a.status = b.status
    /\ a.reviews = b.reviews
    /\ a.current_draft = b.current_draft
    /\ a.approve_after_revision = b.approve_after_revision

(* C22: when a checkpoint-store operation fails during a human_approve, a  *)
(* failure of the resume after a successful aupdate_state included, the    *)
(* caller gets the error and the stored workflow state is the one before   *)
(* the call: status, reviews, current_draft and approve_after_revision are *)
(* unchanged, so the call can be retried.                                  *)
C22_StoreFailureLeavesState ==
    (http.code = 500 /\ http.op = "human_approve") => SameWorkflowState(values, atCall)

\* The step is a call of one of the two operations that look a session up
\* without running the graph.
LookupAnswered ==
    /\ http' # http
    /\ http'.op \in {"human_approve", "get_session_state"}
    /\ http'.code # 500

(* C23: human_approve and get_session_state on a session that has no       *)
(* checkpoint answer 404, leave the store without a checkpoint and run no  *)
(* node; 404 is given only for a missing checkpoint, never for a stored    *)
(* session (a FAILED one included), and the infrastructure error 500 is    *)
(* a different answer, given only for a session that is stored.            *)
C23_NotFound ==
    /\ [][(LookupAnswered /\ ~hasCheckpoint) =>
             /\ http'.code = 404
             /\ ~hasCheckpoint'
             /\ values' = values
             /\ next' = next
             /\ phase' = phase
             /\ sessCount' = sessCount]_vars
    /\ [](http.code = 404 => ~hasCheckpoint)
    /\ [](http.code = 500 => hasCheckpoint)

\* human_approve was answered 404 and nothing has been stored or run.
C23_Witness ==
    /\ http.op = "human_approve"
    /\ http.code = 404
    /\ ~hasCheckpoint
    /\ sessCount = ZeroCount

(* C24: get_session_state is read-only: a call leaves the stored state,    *)
(* the checkpoint and the nodes to run next as they were, returns the      *)
(* stored state, and a call that follows another with no operation in      *)
(* between returns the same answer.                                        *)
C24_GetStateReadOnly ==
    [][(http' # http /\ http'.op = "get_session_state") =>
          /\ values' = values
          /\ next' = next
          /\ hasCheckpoint' = hasCheckpoint
          /\ phase' = phase
          /\ (hasCheckpoint => (http'.code = 200 /\ http'.body = values))
          /\ (http.op = "get_session_state" =>
                (http'.body = http.body /\ http'.code = http.code))]_vars

\* Two consecutive reads of a suspended session.
C24_Witness ==
    /\ http.op = "get_session_state"
    /\ http.calls = 2
    /\ http.code = 200
    /\ http.body = values
    /\ values.status = "AWAITING_HUMAN"
    /\ next = {"supervisor"}

\* The update the last critic to complete has returned to the executor.
LastWrite == IF writes' # <<>> THEN writes'[Len(writes')] ELSE applied'.writes[Len(applied'.writes)]

(* C25: when the audit write of log_agent_run raises (opening the session, *)
(* add or commit), the wrapped node's outcome is the one it has when the   *)
(* write succeeds: the executor gets exactly the agent's own update, and   *)
(* the run goes on.                                                        *)
C25_LoggingFailureKeepsResult ==
    [][env.db # "ok" =>
          /\ lastNode' = "intent_interpreter" =>
                values' = ApplyUpdate(values, run_intent_interpreter(values))
          /\ lastNode' = "drafting" =>
                values' = ApplyUpdate(values,
                              run_drafting_agent(values, uuid + 1, GeneratedContent))
          /\ lastNode' = "revision" =>
                values' = ApplyUpdate(values,
                              run_revision_agent(values, uuid + 1, GeneratedContent))
          /\ lastNode' \in Critics =>
                /\ LastWrite.node = lastNode'
                /\ \E score \in CriticScores(lastNode') :
                      LastWrite.update =
                          CriticUpdate(lastNode', values, uuid + CriticIndex(lastNode'), score)
          /\ lastNode' \in {"intent_interpreter", "drafting", "revision"} \cup Critics =>
                phase' = "running"
      ]_vars

\* With every audit commit raising, a session has gone through a start and
\* a revision round and is suspended again.
C25_Witness ==
    /\ env.db = "commit_failed"
    /\ env.llm = "up"
    /\ Returned
    /\ values.status = "AWAITING_HUMAN"
    /\ sessCount["revision"] = 1
    /\ Len(values.draft_history) = 1

\* The update of a critic whose generation call raised: one review, and the
\* critic's fallback score (0.8, 0.85, 0.9).
FallbackWrite(w) ==
    /\ "reviews" \in DOMAIN w.update
    /\ Len(w.update.reviews) = 1
    /\ w.node = "safety" => w.update.safety_score = 80
    /\ w.node = "empathy" => w.update.empathy_score = 85
    /\ w.node = "clinical" => w.update.clinical_score = 90

OwnReviewAndScore(w, producer, key, draft) ==
    /\ DOMAIN w.update = {"reviews", key}
    /\ Len(w.update.reviews) = 1
    /\ w.update.reviews[1].agent_name = producer
    /\ w.update.reviews[1].target_draft_id = draft.id

CriticWriteShape(w, draft) ==
    /\ w.node \in {"safety", "empathy", "clinical"}
    /\ w.node = "safety" => OwnReviewAndScore(w, "SafetyGuardian", "safety_score", draft)
    /\ w.node = "empathy" => OwnReviewAndScore(w, "EmpathyToneAgent", "empathy_score", draft)
    /\ w.node = "clinical" => OwnReviewAndScore(w, "ClinicalCritic", "clinical_score", draft)

\* Two updates of one round write no common field but the merged reviews.
DisjointScalars(ws) ==
    \A i, j \in DOMAIN ws :
        i # j => (DOMAIN ws[i].update) \cap (DOMAIN ws[j].update) = {"reviews"}

(* C27: for a state with a current draft, each critic returns exactly one  *)
(* review under its own producer name with target_draft_id the id of the   *)
(* current draft, and sets only its own score; no two critics write the    *)
(* same scalar, and a critic step leaves status, iteration, current_draft, *)
(* draft_history and error as they were.                                   *)
C27_CriticWritesOwnFields ==
    /\ [](/\ writes # <<>> => values.current_draft # NoDraft
          /\ \A i \in DOMAIN writes : CriticWriteShape(writes[i], values.current_draft)
          /\ \A i \in DOMAIN applied.writes :
                CriticWriteShape(applied.writes[i], values.current_draft)
          /\ DisjointScalars(writes)
          /\ DisjointScalars(applied.writes))
    /\ [][lastNode' \in {"safety", "empathy", "clinical"} =>
             /\ values'.status = values.status
             /\ values'.iteration = values.iteration
             /\ values'.current_draft = values.current_draft
             /\ values'.draft_history = values.draft_history
             /\ values'.error = values.error
         ]_vars

\* A whole round on a revised draft has been applied: three updates, each
\* critic's own score in the state.
C27_Witness ==
    /\ Len(applied.writes) = 3
    /\ lastNode \in {"safety", "empathy", "clinical"}
    /\ values.current_draft # NoDraft
    /\ values.current_draft.version_number = 2
    /\ values.safety_score # values.empathy_score
    /\ values.empathy_score # values.clinical_score

\* Two states alike in every field the claim lists.
SameSupervisorView(a, b) ==
    /\ a.status = b.status
    /\ a.safety_score = b.safety_score
    /\ a.empathy_score = b.empathy_score
    /\ a.clinical_score = b.clinical_score
    /\ a.iteration = b.iteration
    /\ a.max_iterations = b.max_iterations
    /\ a.approve_after_revision = b.approve_after_revision
    /\ a.error = b.error

(* C28: the supervisor and its router are deterministic in the fields they *)
(* read: run on two states that agree on status, the three scores,         *)
(* iteration, max_iterations, approve_after_revision and error, the        *)
(* supervisor returns the same update and the router the same label.       *)
C28_RouterDeterministic ==
    \A i, j \in DOMAIN probe :
        (/\ probe[i].done
         /\ probe[j].done
         /\ SameSupervisorView(probe[i].state, probe[j].state))
        => /\ probe[i].update = probe[j].update
           /\ probe[i].label = probe[j].label

\* The supervisor has run on two states that agree on what the claim lists
\* and differ in the reviews and the intent, and has auto-approved both.
C28_Witness ==
    /\ probe[1].done
    /\ probe[2].done
    /\ SameSupervisorView(probe[1].state, probe[2].state)
    /\ probe[1].state.reviews # probe[2].state.reviews
    /\ probe[1].state.user_intent # probe[2].state.user_intent
    /\ probe[1].label = "approved"

(* C29: the router's label is computed on the state with the supervisor's  *)
(* update merged: in every supervisor step that sets status FAILED the     *)
(* label is FAILED, in every one that sets status APPROVED the label is    *)
(* approved, whatever the status was when the supervisor started.          *)
C29_LabelFromPostMergeState ==
    [][(lastNode' = "supervisor" /\ supIn' = values /\ runCount' # runCount) =>
          /\ (values'.status = "FAILED" /\ values.status # "FAILED") => label' = "FAILED"
          /\ (values'.status = "APPROVED" /\ values.status # "APPROVED") => label' = "approved"
          /\ values'.status = "FAILED" => label' = "FAILED"
          /\ values'.status = "APPROVED" => label' = "approved"
      ]_vars

\* The supervisor has failed a round under review for a safety score below
\* the floor with iterations left: routed on the status it started with,
\* the run would have gone on to a revision.
C29_Witness ==
    /\ lastNode = "supervisor"
    /\ supIn.status = "REVIEWING"
    /\ supIn.safety_score < 20
    /\ supIn.safety_score >= 0
    /\ supIn.iteration < supIn.max_iterations
    /\ values.status = "FAILED"
    /\ label = "FAILED"

(* C30: after human_approve with APPROVE_CONTINUE on a suspended session,  *)
(* the resumed run performs exactly one more revision cycle (revision, the *)
(* three critics, the supervisor) and then ends APPROVED.                  *)
ApproveContinueOnSuspended ==
    /\ ResumedWith("APPROVE_CONTINUE")
    /\ atCall.status = "AWAITING_HUMAN"

\* The nodes of the resumed run so far: the supervisor on the patched state,
\* then whole cycles of revision, three critics and supervisor.
RevisionCycles(k) ==
    /\ runCount["revision"] = k
    /\ \A c \in {"safety", "empathy", "clinical"} : runCount[c] = k
    /\ runCount["supervisor"] = k + 1
    /\ runCount["drafting"] = 0
    /\ runCount["intent_interpreter"] = 0
    /\ runCount["await_human"] = 0

RequestRevisionOnSuspended ==
    /\ ResumedWith("REQUEST_REVISION")
    /\ atCall.status = "AWAITING_HUMAN"

C31_RequestRevisionRevises ==
    (RequestRevisionOnSuspended /\ Returned) =>
        /\ values.status \in {"AWAITING_HUMAN", "FAILED"}
        /\ runCount["revision"] >= 1
        /\ \A c \in {"safety", "empathy", "clinical"} : runCount[c] = runCount["revision"]
        /\ runCount["supervisor"] = runCount["revision"] + 1
        /\ values.iteration = atCall.iteration + runCount["revision"]
        /\ values.iteration > atCall.iteration
        /\ Len(values.draft_history) = Len(atCall.draft_history) + runCount["revision"]
        /\ values.draft_history[Len(atCall.draft_history) + 1].id = atCall.current_draft.id
        /\ Len(values.reviews) >= Len(atCall.reviews) + 3

\* A session resumed with REQUEST_REVISION has been revised once and is
\* suspended again.
C31_Witness ==
    /\ RequestRevisionOnSuspended
    /\ Returned
    /\ values.status = "AWAITING_HUMAN"
    /\ runCount["revision"] = 1
    /\ values.iteration = 2

(* C32: human_approve merges its patch through the reducers of the node    *)
(* updates, and after it reviews is the reviews stored before the call     *)
(* followed by exactly one new HumanReviewer review; no review id occurs   *)
(* more than once in reviews in any reachable state.                       *)
C32_HumanPatchAddsOneReview ==
    /\ lastNode = "human_approve" =>
          /\ Len(values.reviews) = Len(atCall.reviews) + 1
          /\ SubSeq(values.reviews, 1, Len(atCall.reviews)) = atCall.reviews
          /\ values.reviews[Len(values.reviews)].agent_name = "HumanReviewer"
    /\ \A i, j \in DOMAIN values.reviews :
          i # j => values.reviews[i].id # values.reviews[j].id

(* C33: the iteration counter never exceeds max_iterations in any          *)
(* reachable state, across any sequence of start and human_approve         *)
(* operations.                                                             *)
C33_IterationWithinMax == values.iteration <= values.max_iterations

\* Node executions of the run in progress (or of the last run).
NodeExecutions ==
    runCount["intent_interpreter"] + runCount["drafting"] + runCount["revision"]
        + runCount["safety"] + runCount["empathy"] + runCount["clinical"]
        + runCount["supervisor"] + runCount["await_human"]

\* The most revisions a run can make: up to the iteration limit from where
\* the run began, and one in any case for a resume that asks for a revision.
RevisionsBound ==
    IF InStartRun THEN values.max_iterations - 1
    ELSE IF atCall.max_iterations - atCall.iteration >= 1
    THEN atCall.max_iterations - atCall.iteration
    ELSE 1

(* C34: every run invocation terminates: a start or a resume reaches a     *)
(* terminal or the suspension point after a bounded number of node         *)
(* executions; a run in progress always has a node to execute; a start     *)
(* run executes revision at most max_iterations - 1 times; and between two *)
(* supervisor steps of one run the iteration counter has increased.        *)
C34_RunsTerminate ==
    /\ [](/\ runCount["revision"] <= RevisionsBound
          /\ InStartRun => runCount["revision"] <= values.max_iterations - 1
          /\ NodeExecutions <= 3 + 5 * (RevisionsBound + 1)
          /\ phase = "running" => ENABLED Next)
    /\ [][(lastNode' = "supervisor" /\ runCount' # runCount /\ runCount["supervisor"] >= 1) =>
             values.iteration > supIn.iteration]_vars
    /\ [][(lastNode' = "revision" /\ runCount' # runCount) =>
             values'.iteration = values.iteration + 1]_vars

\* A start run has gone through the longest path: three revisions, then the
\* suspension point.
C34_Witness ==
    /\ InStartRun
    /\ Returned
    /\ runCount["revision"] = 3
    /\ NodeExecutions = 22
    /\ values.status = "AWAITING_HUMAN"

(* C35: whenever a run returns with status APPROVED, all three scores are  *)
(* non-null and meet their thresholds (safety >= 0.7, empathy >= 0.6,      *)
(* clinical >= 0.6), for every sequence of start and human_approve calls,  *)
(* APPROVE_FINAL on a session that is not suspended included.              *)
C35_ApprovedMeansPassing ==
    (Returned /\ values.status = "APPROVED") =>
        /\ values.safety_score # NoScore /\ values.safety_score >= 70
        /\ values.empathy_score # NoScore /\ values.empathy_score >= 60
        /\ values.clinical_score # NoScore /\ values.clinical_score >= 60

\* APPROVE_FINAL on a session that had ended REJECTED has returned with
\* status APPROVED.
C35_Witness ==
    /\ ResumedWith("APPROVE_FINAL")
    /\ atCall.status = "REJECTED"
    /\ Returned
    /\ supIn.status = "APPROVED"
    /\ values.status = "APPROVED"

(* C36: in every state returned by a run invocation, status = FAILED if    *)
(* and only if error is non-null: the router never selects the failure     *)
(* terminal while leaving status different from FAILED or error null, and  *)
(* a state returned as APPROVED, REJECTED or AWAITING_HUMAN has error null.*)
C36_FailedIffError ==
    Returned =>
        /\ (values.status = "FAILED") <=> (values.error # "none")
        /\ label = "FAILED" => (values.status = "FAILED" /\ values.error # "none")
        /\ values.status \in {"APPROVED", "REJECTED", "AWAITING_HUMAN"} =>
               values.error = "none"

\* A FAILED session patched by APPROVE_FINAL has returned: the supervisor
\* has set FAILED again and the error is still there.
C36_Witness ==
    /\ Returned
    /\ ResumedWith("APPROVE_FINAL")
    /\ supIn.status = "APPROVED"
    /\ supIn.error # "none"
    /\ label = "FAILED"
    /\ values.status = "FAILED"
    /\ values.error = "Max iterations reached without meeting quality thresholds."

(* C37: terminal statuses are absorbing: once a session has returned with  *)
(* status APPROVED, FAILED or REJECTED, no later human_approve call        *)
(* changes its status, its iteration or its current_draft, and no node     *)
(* other than the supervisor executes for that session again.              *)
C37_TerminalAbsorbing ==
    (call.op = "human_approve" /\ atCall.status \in {"APPROVED", "FAILED", "REJECTED"}) =>
        /\ Returned => values.status = atCall.status
        /\ values.iteration = atCall.iteration
        /\ values.current_draft = atCall.current_draft
        /\ \A n \in {"intent_interpreter", "drafting", "revision", "safety", "empathy",
                     "clinical", "await_human"} : runCount[n] = 0

(* C38: in every reachable state with a current draft, its version_number  *)
(* is iteration, draft_history holds the drafts with version numbers       *)
(* 1..iteration-1 in increasing order, and its parent_draft_id is the id   *)
(* of the last element of draft_history (null when draft_history is        *)
(* empty); a content edit applied by human_approve keeps the draft's id,   *)
(* version_number and parent_draft_id.                                     *)
C38_DraftLineage ==
    /\ [](values.current_draft # NoDraft =>
            /\ values.current_draft.version_number = values.iteration
            /\ Len(values.draft_history) = values.iteration - 1
            /\ \A k \in DOMAIN values.draft_history :
                  values.draft_history[k].version_number = k
            /\ values.current_draft.parent_draft_id =
                  IF values.draft_history = <<>> THEN 0
                  ELSE values.draft_history[Len(values.draft_history)].id)
    /\ [][lastNode' = "human_approve" =>
            /\ values'.current_draft.id = values.current_draft.id
            /\ values'.current_draft.version_number = values.current_draft.version_number
            /\ values'.current_draft.parent_draft_id = values.current_draft.parent_draft_id
            /\ values'.draft_history = values.draft_history
         ]_vars

\* A revised draft has just been edited by human_approve.
C38_Witness ==
    /\ lastNode = "human_approve"
    /\ atCall.current_draft.content = "generated"
    /\ values.current_draft.content = "edited"
    /\ values.current_draft.version_number = 2
    /\ values.current_draft.id = atCall.current_draft.id
    /\ Len(values.draft_history) = 1

(* C39: approve_after_revision is false in every state returned by a run   *)
(* invocation (AWAITING_HUMAN, APPROVED, FAILED or REJECTED): it is true   *)
(* only while a run resumed by APPROVE_CONTINUE is in progress, and every  *)
(* path on which that run ends clears it.                                  *)
C39_FlagClearedOnReturn ==
    /\ Returned => ~values.approve_after_revision
    /\ values.approve_after_revision =>
          (phase = "running" /\ ResumedWith("APPROVE_CONTINUE"))

(* C40: route_supervisor always returns one of the five labels of the      *)
(* conditional-edge map (await_human, revision, FAILED, approved,          *)
(* rejected), for every combination of status, scores (null or not),       *)
(* iteration, max_iterations and approve_after_revision.                   *)
C40_LabelIsMapped ==
    \A i \in DOMAIN probe :
        probe[i].done =>
            probe[i].label \in {"await_human", "revision", "FAILED", "approved", "rejected"}

\* The router has been called on a state in a status no node of a run leaves
\* behind for it, with no scores, and directly as well as after the
\* supervisor.
C40_Witness ==
    /\ probe[1].done
    /\ probe[2].done
    /\ probe[1].state.status = "INIT"
    /\ probe[1].state.safety_score = NoScore
    /\ probe[1].state.iteration = 0
    /\ probe[1].label = "revision"

====
